---- MODULE Spec2Model ----
(***************************************************************************)
(* ABC/XYZ inventory classification (abc_rep_clean.py).                    *)
(*                                                                         *)
(* One run of the script over one uploaded table: required-column check,   *)
(* category column resolution, data cleaning, category filter, ABC         *)
(* classification, XYZ classification, segment filter, replenishment       *)
(* advice.  Every statement group of the script is one action; pc is the   *)
(* position of the run, which starts with the uploaded table read into df  *)
(* (line 27).  The choices of the two sidebar widgets are inputs of the     *)
(* actions that read them.                                                 *)
(*                                                                         *)
(* Numbers are exact: sales and qty are integers, a quotient is kept as    *)
(* the pair (num, den) that the float division was applied to, with        *)
(* den = 0 standing for the IEEE results inf, -inf and NaN.  A             *)
(* coefficient of variation is kept as sign and square (std/mean with     *)
(* std = sqrt(variance)), so that comparisons with 0.5 and 1.0 are exact.  *)
(* A date is kept as the calendar month it falls in: the script uses the   *)
(* date only through pd.Grouper(freq="ME").                                *)
(***************************************************************************)
EXTENDS Integers, Sequences, FiniteSets, TLC

VARIABLES
    pc,               \* position of the run in the script
    columns,          \* df.columns
    df,               \* the transaction table, a sequence of rows
    category_col,     \* the resolved category column
    agg,              \* the item aggregate table, a sequence of rows
    cv,               \* the CV series, indexed by item_id
    selected_abcxyz,  \* the caller's segment selection
    filtered_agg      \* the table shown and exported

vars == <<pc, columns, df, category_col, agg, cv, selected_abcxyz, filtered_agg>>

----------------------------------------------------------------------------
(* Bounds of the model                                                     *)

MaxRows == 2      \* rows of an uploaded table
MaxRowsABC == 3   \* rows of an uploaded table, value-concentration batches
MaxMonth == 2     \* calendar months a date can fall in

----------------------------------------------------------------------------
(* Cells                                                                   *)

NaN == "NaN"                          \* a missing text cell
None == "None"
Num(n) == [k |-> "num", v |-> n]      \* a number
Date(m) == [k |-> "date", v |-> m]    \* a parsable date in month m
Text == [k |-> "text", v |-> 0]       \* text that is neither number nor date
Missing == [k |-> "nan", v |-> 0]     \* an empty cell: NaN, NaT after parsing

RECURSIVE SumSeq(_)
SumSeq(s) == IF s = <<>> THEN 0 ELSE Head(s) + SumSeq(Tail(s))

\* Lexicographic order of the strings the model uses, as Python sorts them.
StrOrder == <<"c1", "c2", "d1", "d2", "i1", "i2", "i3">>
StrRank(x) == CHOOSE i \in DOMAIN StrOrder : StrOrder[i] = x

----------------------------------------------------------------------------
(* Required columns and category column                                    *)

required_cols == {"item_id", "description", "sales", "qty", "date"}

CategoryCandidates == <<"category", "Category", "group", "Group", "description">>

ResolveCategoryCol(cols) ==
    LET hits == {i \in DOMAIN CategoryCandidates : CategoryCandidates[i] \in cols}
    IN  IF hits = {} THEN None
        ELSE CategoryCandidates[CHOOSE i \in hits : \A j \in hits : i <= j]

----------------------------------------------------------------------------
(* Data cleaning                                                           *)

\* pd.to_datetime raises on a value that is no date; an empty cell is NaT.
DateParseFails(d) == \E i \in DOMAIN d : d[i].date.k = "text"

to_datetime(c) == IF c.k = "date" THEN c ELSE Missing

\* Variant: errors="ignore", the cell is left as it is.
to_numericIgnore(c) == c

\* pd.to_numeric(errors="coerce"): what is no number becomes NaN.
to_numeric(c) == IF c.k = "num" THEN c ELSE Missing

fillna0(c) == IF c.k = "nan" THEN Num(0) ELSE c

CleanRow(r) ==
    [r EXCEPT !.date = to_datetime(@),
              !.sales = fillna0(to_numeric(@)),
              !.qty = fillna0(to_numeric(@))]

----------------------------------------------------------------------------
(* Category filter                                                         *)

UniqueCategories(d, col) == {d[i][col] : i \in DOMAIN d} \ {NaN}

CategoryFilter(d, col, sel) ==
    IF sel = "All" THEN d
    ELSE LET Keep(r) == r[col] = sel IN SelectSeq(d, Keep)

----------------------------------------------------------------------------
(* ABC classification                                                      *)

A_MAX_PCT == 70
B_MAX_PCT == 90

\* groupby drops the rows with a missing key (dropna=True).
GroupKeys(d) ==
    {<<d[i].item_id, d[i].description>> : i \in DOMAIN d}
        \ {k \in {<<d[i].item_id, d[i].description>> : i \in DOMAIN d} :
              k[1] = NaN \/ k[2] = NaN}

KeyLess(a, b) ==
    \/ StrRank(a[1]) < StrRank(b[1])
    \/ a[1] = b[1] /\ StrRank(a[2]) < StrRank(b[2])

\* groupby sorts the group keys.
SortedKeys(K) ==
    [p \in 1..Cardinality(K) |->
        CHOOSE k \in K : Cardinality({j \in K : KeyLess(j, k)}) = p - 1]

GroupSum(d, k, col) ==
    SumSeq([i \in DOMAIN d |->
        IF d[i].item_id = k[1] /\ d[i].description = k[2] THEN d[i][col].v ELSE 0])

groupby_agg(d) ==
    LET keys == SortedKeys(GroupKeys(d))
    IN  [p \in DOMAIN keys |->
            [item_id |-> keys[p][1], description |-> keys[p][2],
             sales |-> GroupSum(d, keys[p], "sales"),
             qty |-> GroupSum(d, keys[p], "qty")]]

\* sort_values(by="sales", ascending=False): equal sales keep their order (the
\* default sort is an insertion sort on tables of this size).
sort_values(a) ==
    LET pos(i) == Cardinality({j \in DOMAIN a : a[j].sales > a[i].sales})
                  + Cardinality({j \in DOMAIN a : j < i /\ a[j].sales = a[i].sales}) + 1
    IN  [p \in DOMAIN a |-> a[CHOOSE i \in DOMAIN a : pos(i) = p]]

cumsum(a, i) == SumSeq([j \in 1..i |-> a[j].sales])

\* Float division: den = 0 gives inf (num > 0), -inf (num < 0) or NaN (num = 0).
Div(n, d) == [num |-> n, den |-> d]

\* Variant: written as "not x > pct/100", which is true of NaN.
LeqPctNegated(x, pct) ==
    IF x.den = 0 THEN x.num <= 0
    ELSE IF x.den > 0 THEN 100 * x.num <= pct * x.den
    ELSE 100 * x.num >= pct * x.den

\* x <= pct/100 as the float comparison decides it; a comparison with NaN is false.
LeqPct(x, pct) ==
    IF x.den = 0 THEN x.num < 0
    ELSE IF x.den > 0 THEN 100 * x.num <= pct * x.den
    ELSE 100 * x.num >= pct * x.den

\* Variant: open upper bounds.
ABCLabelStrict(x) ==
    LET lt(pct) == IF x.den = 0 THEN x.num < 0
                   ELSE IF x.den > 0 THEN 100 * x.num < pct * x.den
                   ELSE 100 * x.num > pct * x.den
    IN  IF lt(A_MAX_PCT) THEN "A" ELSE IF lt(B_MAX_PCT) THEN "B" ELSE "C"

\* Line 58.
ABCLabel(x) ==
    IF LeqPct(x, A_MAX_PCT) THEN "A" ELSE IF LeqPct(x, B_MAX_PCT) THEN "B" ELSE "C"

\* Variant: the item's own share, without cumsum.
cum_pctShare(a) == [i \in DOMAIN a |-> Div(a[i].sales, cumsum(a, Len(a)))]

\* Line 57.
cum_pct(a) == [i \in DOMAIN a |-> Div(cumsum(a, i), cumsum(a, Len(a)))]

ABCTable(d) ==
    LET s == sort_values(groupby_agg(d))
        c == cum_pct(s)
    IN  [i \in DOMAIN s |-> s[i] @@ [cum_pct |-> c[i], ABC |-> ABCLabel(c[i])]]

----------------------------------------------------------------------------
(* XYZ classification                                                      *)

X_MAX_PCT == 50
Y_MAX_PCT == 100

\* The rows that fall in a month bucket: groupby drops a missing item_id or date.
Bucketed(d) == {i \in DOMAIN d : d[i].item_id # NaN /\ d[i].date.k = "date"}

PivotIndex(d) == {d[i].item_id : i \in Bucketed(d)}
PivotColumns(d) == {d[i].date.v : i \in Bucketed(d)}

\* monthly_qty pivoted: the month's sum, or NaN where the item has no record.
PivotCell(d, it, m) ==
    LET hit == {i \in Bucketed(d) : d[i].item_id = it /\ d[i].date.v = m}
    IN  IF hit = {} THEN Missing
        ELSE Num(SumSeq([i \in DOMAIN d |-> IF i \in hit THEN d[i].qty.v ELSE 0]))

\* Variant: the pivot without fillna(0).
PivotNoFill(c) == c

\* pivot.fillna(0): a month without a record of the item counts as 0.
PivotFill(c) == fillna0(c)

Pivot(d) ==
    [it \in PivotIndex(d) |-> [m \in PivotColumns(d) |-> PivotFill(PivotCell(d, it, m))]]

\* Row statistics skip NaN cells (skipna=True).
RECURSIVE SumCells(_, _, _)
SumCells(row, S, sq) ==
    IF S = {} THEN 0
    ELSE LET m == CHOOSE x \in S : TRUE
             v == IF row[m].k = "num" THEN row[m].v ELSE 0
         IN  (IF sq THEN v * v ELSE v) + SumCells(row, S \ {m}, sq)

CVZero == [nan |-> FALSE, sgn |-> 0, num |-> 0, den |-> 1]
CVNaN == [nan |-> TRUE, sgn |-> 0, num |-> 0, den |-> 1]

Sign(x) == IF x > 0 THEN 1 ELSE IF x < 0 THEN -1 ELSE 0

\* std(ddof=1) / mean.replace(0, NaN) of one pivot row.  With n values of sum S
\* and square sum Q: variance = (n*Q - S*S) / (n*(n-1)), mean = S / n, so
\* cv*cv = n*(n*Q - S*S) / ((n-1)*S*S); std is NaN for n < 2.
RowCV(row) ==
    LET n == Cardinality({m \in DOMAIN row : row[m].k = "num"})
        S == SumCells(row, DOMAIN row, FALSE)
        Q == SumCells(row, DOMAIN row, TRUE)
    IN  IF n < 2 \/ S = 0 THEN CVNaN
        ELSE [nan |-> FALSE, sgn |-> Sign(S),
              num |-> n * (n * Q - S * S), den |-> (n - 1) * S * S]

CVFill(c) == IF c.nan THEN CVZero ELSE c

CVSeries(d) == LET p == Pivot(d) IN [it \in DOMAIN p |-> CVFill(RowCV(p[it]))]

\* agg.join(cv, on="item_id"): a left join, NaN where the item has no CV.
JoinCV(row, series) ==
    IF row.item_id \in DOMAIN series THEN series[row.item_id] ELSE CVNaN

\* c <= pct/100 for c = sgn * sqrt(num/den); a comparison with NaN is false.
CVLeqPct(c, pct) ==
    /\ ~c.nan
    /\ \/ c.sgn <= 0
       \/ c.num = 0
       \/ 100 * 100 * c.num <= pct * pct * c.den

\* Variant: a NaN CV is passed on as a missing label.
XYZLabelNaN(c) ==
    IF c.nan THEN NaN
    ELSE IF CVLeqPct(c, X_MAX_PCT) THEN "X" ELSE IF CVLeqPct(c, Y_MAX_PCT) THEN "Y" ELSE "Z"

\* Line 66.
XYZLabel(c) ==
    IF CVLeqPct(c, X_MAX_PCT) THEN "X" ELSE IF CVLeqPct(c, Y_MAX_PCT) THEN "Y" ELSE "Z"

Segment(abc, xyz) == abc \o "/" \o xyz

XYZTable(a, series) ==
    [i \in DOMAIN a |->
        LET c == JoinCV(a[i], series)
        IN  a[i] @@ [CV |-> c, XYZ |-> XYZLabel(c),
                     ABC_XYZ |-> Segment(a[i].ABC, XYZLabel(c))]]

----------------------------------------------------------------------------
(* Segment filter and replenishment advice                                 *)

UniqueSegments(a) == {a[i].ABC_XYZ : i \in DOMAIN a}

\* Variant: the selection taken as an exclusion list.
SegmentFilterInverted(a, sel) ==
    LET Keep(r) == r.ABC_XYZ \notin sel IN SelectSeq(a, Keep)

\* Line 72.
SegmentFilter(a, sel) ==
    LET Keep(r) == r.ABC_XYZ \in sel IN SelectSeq(a, Keep)

replenishment_rules ==
    [s \in {"A/X", "A/Y", "A/Z", "B/X", "B/Y", "B/Z", "C/X", "C/Y", "C/Z"} |->
        CASE s = "A/X" -> "Reorder weekly with tight safety stock control."
          [] s = "A/Y" -> "Reorder bi-weekly using smoothed demand forecast."
          [] s = "A/Z" -> "Manual review monthly with cautious reorder quantity."
          [] s = "B/X" -> "Reorder bi-weekly with fixed reorder point."
          [] s = "B/Y" -> "Monitor monthly; reorder with buffer stock."
          [] s = "B/Z" -> "Review quarterly with manual override."
          [] s = "C/X" -> "Low-priority reorder, maintain minimum stock."
          [] s = "C/Y" -> "Replenish only with demand signal."
          [] s = "C/Z" -> "Do not replenish unless justified by exception."]

\* Series.map(dict): NaN for a value that is no key.
MapAdvice(s) == IF s \in DOMAIN replenishment_rules THEN replenishment_rules[s] ELSE NaN

AdviceTable(a) == [i \in DOMAIN a |-> a[i] @@ [advice |-> MapAdvice(a[i].ABC_XYZ)]]

----------------------------------------------------------------------------
(* The run                                                                 *)

\* Lines 30-33: a missing required column stops the script.
RequiredColumns ==
    /\ pc = "uploaded"
    /\ pc' = IF required_cols \subseteq columns THEN "checked" ELSE "stopped"
    /\ UNCHANGED <<columns, df, category_col, agg, cv, selected_abcxyz, filtered_agg>>

\* Lines 36-40.
CategoryColumn ==
    /\ pc = "checked"
    /\ category_col' = ResolveCategoryCol(columns)
    /\ pc' = "resolved"
    /\ UNCHANGED <<columns, df, agg, cv, selected_abcxyz, filtered_agg>>

\* Lines 43-45: an unparsable date raises and ends the run.
DataCleaning ==
    /\ pc = "resolved"
    /\ IF DateParseFails(df)
       THEN pc' = "raised" /\ UNCHANGED df
       ELSE pc' = "cleaned" /\ df' = [i \in DOMAIN df |-> CleanRow(df[i])]
    /\ UNCHANGED <<columns, category_col, agg, cv, selected_abcxyz, filtered_agg>>

\* Lines 48-52: the caller picks "All" or one of the categories present.
SelectCategory ==
    /\ pc = "cleaned"
    /\ IF category_col # None
       THEN \E sel \in {"All"} \cup UniqueCategories(df, category_col) :
                df' = CategoryFilter(df, category_col, sel)
       ELSE UNCHANGED df
    /\ pc' = "filtered"
    /\ UNCHANGED <<columns, category_col, agg, cv, selected_abcxyz, filtered_agg>>

\* Lines 55-58.
ABCClassification ==
    /\ pc = "filtered"
    /\ agg' = ABCTable(df)
    /\ pc' = "abc"
    /\ UNCHANGED <<columns, df, category_col, cv, selected_abcxyz, filtered_agg>>

\* Lines 61-67.  Two degenerate tables end either way, depending on the pandas
\* build, and both outcomes are kept: with no parsable date at all the month
\* binning of line 61 has no date range to bin; on an empty aggregate table the
\* ABC and XYZ columns are empty float columns, which line 67 adds to a string.
XYZClassification ==
    /\ pc = "abc"
    /\ cv' = CVSeries(df)
    /\ agg' = XYZTable(agg, CVSeries(df))
    /\ pc' \in (IF agg = <<>> \/ Bucketed(df) = {}
               THEN {"raised", "classified"} ELSE {"classified"})
    /\ UNCHANGED <<columns, df, category_col, selected_abcxyz, filtered_agg>>

\* Lines 70-72: the caller picks any subset of the segments present.
ABCXYZFilter ==
    /\ pc = "classified"
    /\ \E sel \in SUBSET UniqueSegments(agg) :
          /\ selected_abcxyz' = sel
          /\ filtered_agg' = SegmentFilter(agg, sel)
    /\ pc' = "selected"
    /\ UNCHANGED <<columns, df, category_col, agg, cv>>

\* Lines 76-88; the table is then shown and exported (lines 91-101).
ReplenishmentAdvice ==
    /\ pc = "selected"
    /\ filtered_agg' = AdviceTable(filtered_agg)
    /\ pc' = "done"
    /\ UNCHANGED <<columns, df, category_col, agg, cv, selected_abcxyz>>

Next ==
    \/ RequiredColumns
    \/ CategoryColumn
    \/ DataCleaning
    \/ SelectCategory
    \/ ABCClassification
    \/ XYZClassification
    \/ ABCXYZFilter
    \/ ReplenishmentAdvice

----------------------------------------------------------------------------
(* Uploaded tables                                                         *)

AllColumns == required_cols \cup {"category"}

MkRow(it, de, s, q, da, ca) ==
    [item_id |-> it, description |-> de, sales |-> s, qty |-> q, date |-> da,
     category |-> ca]

Restrict(r, cols) == [c \in cols \cap DOMAIN r |-> r[c]]

Tables(cols, rows, n) ==
    {[columns |-> cols, rows |-> [i \in DOMAIN s |-> Restrict(s[i], cols)]] :
        s \in UNION {[1..k -> rows] : k \in 1..n}}

Uploaded(files) ==
    /\ pc = "uploaded"
    /\ \E f \in files : columns = f.columns /\ df = f.rows
    /\ category_col = None
    /\ agg = <<>>
    /\ cv = <<>>
    /\ selected_abcxyz = {}
    /\ filtered_agg = <<>>

Months == 1..MaxMonth

\* Mixed batches: every column present or one missing, cells of every kind.
ColumnSets == {AllColumns} \cup {AllColumns \ {c} : c \in AllColumns}
RowsMixed ==
    {MkRow(it, "d1", s, q, da, "c1") :
        it \in {"i1", "i2"}, s \in {Num(2), Text}, q \in {Num(1), Text},
        da \in {Date(1), Text}}

Init == Uploaded(UNION {Tables(cols, RowsMixed, MaxRows) : cols \in ColumnSets})
Spec == Init /\ [][Next]_vars

\* Value-concentration batches: one month, several items, sales of every size.
RowsABC ==
    {MkRow(it, "d1", Num(s), Num(1), Date(1), NaN) :
        it \in {"i1", "i2", "i3"}, s \in {-1, 0, 1, 2, 7}}

InitABC == Uploaded(Tables(required_cols, RowsABC, MaxRowsABC))
SpecABC == InitABC /\ [][Next]_vars

\* Demand-variability batches: several months, missing and unparsable cells.
RowsXYZ ==
    {MkRow(it, "d1", Num(1), q, da, NaN) :
        it \in {"i1", "i2"}, q \in {Num(1), Num(3), Text},
        da \in {Date(m) : m \in Months} \cup {Missing}}

InitXYZ == Uploaded(Tables(required_cols, RowsXYZ, MaxRows))
SpecXYZ == InitXYZ /\ [][Next]_vars

\* Batches with repeated and missing keys.
RowsKeys ==
    {MkRow(it, de, Num(1), Num(1), da, ca) :
        it \in {"i1", "i2"}, de \in {"d1", "d2", NaN}, da \in {Date(1), Missing},
        ca \in {"c1", "c2"}}

InitKeys == Uploaded(Tables(AllColumns, RowsKeys, MaxRows)
                     \cup Tables(required_cols, RowsKeys, MaxRows))
SpecKeys == InitKeys /\ [][Next]_vars

----------------------------------------------------------------------------
(* Properties                                                              *)

HasABC == pc \in {"abc", "classified", "selected", "done"}
Classified == pc \in {"classified", "selected", "done"}

GrandTotal == SumSeq([i \in DOMAIN agg |-> agg[i].sales])
RunningTotal(i) == SumSeq([j \in 1..i |-> agg[j].sales])

\* C1: for a non-empty batch with positive grand total sales, cum_sales_fraction
\* read in the sorted order is non-decreasing and the last value is 1.0.
C1_CumPctNonDecreasingEndsAtOne ==
    (HasABC /\ agg # <<>> /\ GrandTotal > 0) =>
        /\ \A i \in 1..(Len(agg) - 1) :
              agg[i].cum_pct.num * agg[i + 1].cum_pct.den
                  <= agg[i + 1].cum_pct.num * agg[i].cum_pct.den
        /\ agg[Len(agg)].cum_pct.num = agg[Len(agg)].cum_pct.den

\* C2: abc_label is decided by cum_sales_fraction alone, A up to and including
\* 0.70, B up to and including 0.90, C otherwise; an item whose cumulative sales
\* are exactly 70% of the grand total is A and one at exactly 90% is B.
C2_ABCLabelByThresholds ==
    HasABC =>
        \A i \in DOMAIN agg :
            LET x == agg[i].cum_pct
                le(p, q) == IF x.den = 0 THEN x.num < 0
                            ELSE IF x.den > 0 THEN q * x.num <= p * x.den
                            ELSE q * x.num >= p * x.den
            IN  /\ x.num = RunningTotal(i) /\ x.den = GrandTotal
                /\ agg[i].ABC = IF le(7, 10) THEN "A" ELSE IF le(9, 10) THEN "B" ELSE "C"
                /\ (GrandTotal # 0 /\ 10 * RunningTotal(i) = 7 * GrandTotal)
                       => agg[i].ABC = "A"
                /\ (GrandTotal # 0 /\ 10 * RunningTotal(i) = 9 * GrandTotal)
                       => agg[i].ABC = "B"

C2_Witness ==
    /\ pc = "done"
    /\ \E i, j \in DOMAIN agg :
          /\ 10 * RunningTotal(i) = 7 * GrandTotal /\ agg[i].ABC = "A"
          /\ 10 * RunningTotal(j) = 9 * GrandTotal /\ agg[j].ABC = "B"
          /\ GrandTotal > 0

\* C5: when the grand total of sales is 0 the run does not fail on the division
\* (the quotient is a NaN or inf value, not an error): it goes on past the ABC
\* step and every item aggregate is labelled C.
C5_ZeroTotalAllC ==
    (agg # <<>> /\ GrandTotal = 0) =>
        /\ HasABC
        /\ \A i \in DOMAIN agg : agg[i].cum_pct.den = 0
        /\ \A i \in DOMAIN agg : agg[i].ABC = "C"

C5_Witness ==
    /\ pc = "done"
    /\ Len(agg) >= 2
    /\ GrandTotal = 0
    /\ \A i \in DOMAIN agg : agg[i].ABC = "C"
    /\ filtered_agg # <<>>

ABCRank(l) == CASE l = "A" -> 1 [] l = "B" -> 2 [] l = "C" -> 3

\* C10: with non-negative sales and a positive grand total the labels in
\* output order run A, then B, then C, and the last row is labelled C.
C10_LabelsOrderedLastC ==
    (HasABC /\ agg # <<>> /\ GrandTotal > 0
        /\ \A i \in DOMAIN df : df[i].sales.v >= 0) =>
        /\ \A i, j \in DOMAIN agg : i < j => ABCRank(agg[i].ABC) <= ABCRank(agg[j].ABC)
        /\ agg[Len(agg)].ABC = "C"

C10_Witness ==
    /\ pc = "done"
    /\ Len(agg) = 3
    /\ \A i \in DOMAIN df : df[i].sales.v >= 0
    /\ agg[1].ABC = "A" /\ agg[2].ABC = "B" /\ agg[3].ABC = "C"

\* The months in which an item has records, and its quantity in a month.
ItemMonths(it) == {df[j].date.v : j \in {n \in Bucketed(df) : df[n].item_id = it}}
MonthTotal(it, m) ==
    SumSeq([j \in DOMAIN df |->
        IF j \in Bucketed(df) /\ df[j].item_id = it /\ df[j].date.v = m
        THEN df[j].qty.v ELSE 0])
BatchMonths == {df[j].date.v : j \in Bucketed(df)}
IsZeroCV(c) == ~c.nan /\ c.num = 0

\* C3 as stated: an item whose monthly totals are equal and non-zero over the
\* months in which that item has records gets CV = 0 and label X, whatever the
\* other items of the batch are.
C3_ConstantOverOwnMonths ==
    Classified =>
        \A i \in DOMAIN agg :
            LET it == agg[i].item_id
                M == ItemMonths(it)
            IN  (/\ M # {}
                 /\ \A m \in M : MonthTotal(it, m) # 0
                 /\ \A m1, m2 \in M : MonthTotal(it, m1) = MonthTotal(it, m2))
                    => IsZeroCV(agg[i].CV) /\ agg[i].XYZ = "X"

\* C3 amended: CV is taken across the months present in the batch, a month
\* without a record of the item counting as 0.  An item whose monthly totals are
\* equal and non-zero over all those months gets CV = 0 and label X; an item with
\* a non-zero total that misses one of those months does not get CV = 0.
C3_ConstantOverBatchMonths ==
    Classified =>
        \A i \in DOMAIN agg :
            LET it == agg[i].item_id
                M == ItemMonths(it)
                total == SumSeq([j \in DOMAIN df |->
                            IF j \in Bucketed(df) /\ df[j].item_id = it
                            THEN df[j].qty.v ELSE 0])
            IN  /\ (/\ M # {}
                    /\ \A m \in BatchMonths : MonthTotal(it, m) # 0
                    /\ \A m1, m2 \in BatchMonths : MonthTotal(it, m1) = MonthTotal(it, m2))
                       => IsZeroCV(agg[i].CV) /\ agg[i].XYZ = "X"
                /\ (M # {} /\ M # BatchMonths /\ total # 0) => ~IsZeroCV(agg[i].CV)

C3_Witness ==
    /\ pc = "done"
    /\ \E i \in DOMAIN agg :
          /\ Cardinality(BatchMonths) >= 2
          /\ ItemMonths(agg[i].item_id) = BatchMonths
          /\ \A m \in BatchMonths : MonthTotal(agg[i].item_id, m) # 0
          /\ \A m1, m2 \in BatchMonths :
                MonthTotal(agg[i].item_id, m1) = MonthTotal(agg[i].item_id, m2)
          /\ IsZeroCV(agg[i].CV) /\ agg[i].XYZ = "X"

\* C9: an item of the aggregate table without an entry in the monthly quantity
\* series gets CV = 0 and label X, and so does an item whose mean monthly
\* quantity is 0.  Stated for the batches that have a monthly series at all
\* (some record falls in a month bucket).
C9_AbsentOrZeroMeanIsX ==
    (Classified /\ BatchMonths # {}) =>
        \A i \in DOMAIN agg :
            LET it == agg[i].item_id
                absent == ItemMonths(it) = {}
                zeromean == /\ ItemMonths(it) # {}
                            /\ SumSeq([j \in DOMAIN df |->
                                   IF j \in Bucketed(df) /\ df[j].item_id = it
                                   THEN df[j].qty.v ELSE 0]) = 0
            IN  (absent \/ zeromean) => IsZeroCV(agg[i].CV) /\ agg[i].XYZ = "X"

NineSegments == {"A/X", "A/Y", "A/Z", "B/X", "B/Y", "B/Z", "C/X", "C/Y", "C/Z"}

PolicyTable(s) ==
    CASE s = "A/X" -> "Reorder weekly with tight safety stock control."
      [] s = "A/Y" -> "Reorder bi-weekly using smoothed demand forecast."
      [] s = "A/Z" -> "Manual review monthly with cautious reorder quantity."
      [] s = "B/X" -> "Reorder bi-weekly with fixed reorder point."
      [] s = "B/Y" -> "Monitor monthly; reorder with buffer stock."
      [] s = "B/Z" -> "Review quarterly with manual override."
      [] s = "C/X" -> "Low-priority reorder, maintain minimum stock."
      [] s = "C/Y" -> "Replenish only with demand signal."
      [] s = "C/Z" -> "Do not replenish unless justified by exception."
      [] OTHER -> "(no entry)"

C7_FilterIsSubset ==
    pc \in {"selected", "done"} =>
        LET kept == {i \in DOMAIN agg : agg[i].ABC_XYZ \in selected_abcxyz}
            nth(p) == CHOOSE i \in kept : Cardinality({j \in kept : j < i}) = p - 1
        IN  /\ Len(filtered_agg) = Cardinality(kept)
            /\ \A p \in DOMAIN filtered_agg :
                  \A f \in DOMAIN agg[nth(p)] : filtered_agg[p][f] = agg[nth(p)][f]
            /\ selected_abcxyz = {agg[i].ABC_XYZ : i \in DOMAIN agg}
                  => Len(filtered_agg) = Len(agg)
            /\ selected_abcxyz = {} => filtered_agg = <<>>

C7_Witness ==
    /\ pc = "done"
    /\ Len(agg) = 2
    /\ Len(filtered_agg) = 1
    /\ filtered_agg[1].ABC_XYZ = agg[2].ABC_XYZ
    /\ agg[1].ABC_XYZ \notin selected_abcxyz

DfPairs == {<<df[i].item_id, df[i].description>> : i \in DOMAIN df}
AggPairs == {<<agg[i].item_id, agg[i].description>> : i \in DOMAIN agg}

\* C4: the aggregate table has exactly one row for each (item_id, description)
\* pair of the category-filtered records, a pair with a missing description
\* included, and no other row; the join of CV keeps the rows as they are.
C4_OneRowPerPair ==
    HasABC =>
        /\ AggPairs = DfPairs
        /\ Len(agg) = Cardinality(DfPairs)

MissingColumn == ~(required_cols \subseteq columns)
UnparsableDate ==
    /\ required_cols \subseteq columns
    /\ \E i \in DOMAIN df : df[i].date.k = "text"
NoTable == agg = <<>> /\ filtered_agg = <<>>
Coerced(old, new) == new = IF old.k = "num" THEN old ELSE Num(0)

\* C8: with a required column missing, or a date that does not parse, the run
\* ends before aggregation and no table is ever produced; sales and qty cells
\* that do not parse never end the run and are replaced by 0.
C8_AbortOrCoerce ==
    /\ [](MissingColumn => pc \in {"uploaded", "stopped"} /\ NoTable)
    /\ [](UnparsableDate => pc \in {"uploaded", "checked", "resolved", "raised"} /\ NoTable)
    /\ [][(pc = "uploaded" /\ MissingColumn) => pc' = "stopped"]_vars
    /\ [][(pc = "resolved" /\ UnparsableDate) => pc' = "raised"]_vars
    /\ [][(pc = "resolved" /\ ~UnparsableDate) =>
             /\ pc' = "cleaned"
             /\ Len(df') = Len(df)
             /\ \A i \in DOMAIN df :
                   /\ Coerced(df[i].sales, df'[i].sales)
                   /\ Coerced(df[i].qty, df'[i].qty)]_vars

C8_Witness ==
    /\ pc = "raised"
    /\ UnparsableDate
    /\ \E i \in DOMAIN df : df[i].sales.k = "text"
    /\ NoTable

====
